---- MODULE Spec2Model ----
(***************************************************************************)
(* State-machine model of scrape_tiktok_profile (src/app.py), the async    *)
(* generator that drives one browser run and yields video records, and of  *)
(* its interceptor callback handle_route.                                   *)
(*                                                                         *)
(* One action is one resumption of the generator: it runs from the point   *)
(* where the generator was suspended (an await or a yield) to the next     *)
(* point where it suspends or ends.  The interceptor callback and the      *)
(* consumer run on the same event loop, so they act only while the         *)
(* generator is suspended.                                                  *)
(***************************************************************************)
EXTENDS Integers, Sequences, FiniteSets, TLC

\* ---------------------------------------------------------------- bounds
\* Raw items the page serves in one run (embedded list plus all payloads).
MaxItems == 2
\* Payloads the interceptor stores in one run.
MaxPayloads == 2
\* Document heights range over 0..MaxHeight.
MaxHeight == 1
\* Requests the page issues while handle_route is followed request by request.
MaxRequests == 3

\* ------------------------------------------------------------- constants
max_scrolls == 3

None == "None"
NA == "N/A"
Absent == "absent"
Ids == {"v1", "v2"}
Heights == 0..MaxHeight

\* ------------------------------------------------------------- raw items
\* A raw item is a dict.  aweme_id / id: the identifier keys the two loops
\* read; stats / statistics: the like count under the API shape
\* (stats.diggCount) and under the HTML shape (statistics.digg_count);
\* avatarThumb: item['author']['avatarThumb'] is present; zoomCover: the
\* resolutions present under item['video']['zoomCover'].  The remaining
\* subscripted fields (statsV2, video.duration) are taken to be present.
Item(aid, id, st, stcs, av, zc) ==
    [aweme_id |-> aid, id |-> id, stats |-> st, statistics |-> stcs,
     avatarThumb |-> av, zoomCover |-> zc]

\* Items as the embedded state document carries them: a complete item per
\* id, one without its cover image, one without 'aweme_id'.
HtmlItems ==
    {Item(i, Absent, Absent, "3", TRUE, {"720"}) : i \in Ids}
      \cup {Item("v1", Absent, Absent, "3", TRUE, {}),
            Item(Absent, Absent, Absent, "3", TRUE, {"720"})}

\* Items as the item_list API carries them: a complete item per id, one
\* without its cover image, one without 'id'.
ApiItems ==
    {Item(Absent, i, "4", Absent, TRUE, {"480"}) : i \in Ids}
      \cup {Item(Absent, "v1", "4", Absent, TRUE, {}),
            Item(Absent, Absent, "4", Absent, TRUE, {"480"})}

\* Every shape of raw item, for the normalisation specification.
AllItems ==
    {Item(aid, id, st, stcs, av, zc) :
        aid \in {Absent, "v1"}, id \in {Absent, "v1"},
        st \in {Absent, "4"}, stcs \in {Absent, "3"},
        av \in BOOLEAN, zc \in SUBSET {"720", "480"}}

SeqsUpTo(S, n) == UNION {[1..m -> S] : m \in 0..n}

\* A list of at most n items drawn from S.
ItemLists(S, n) == SeqsUpTo(S, n)

\* An intercepted payload: the parsed JSON body of one item_list response.
\* hasKey: the body has an 'itemList' key.
Payload(hasKey, list) == [hasKey |-> hasKey, itemList |-> list]
Payloads(n) ==
    {Payload(TRUE, l) : l \in ItemLists(ApiItems, n)} \cup {Payload(FALSE, <<>>)}

\* The embedded state document of the loaded page.  tag: the rehydration
\* script element is present; json_ok: its content parses; awemeList and
\* itemStruct: what the two known paths hold ({} / [] when missing).
Doc(tag, ok, al, is) ==
    [tag |-> tag, json_ok |-> ok, awemeList |-> al, itemStruct |-> is]
EmbeddedDocs(n) ==
    {Doc(FALSE, FALSE, <<>>, <<>>), Doc(TRUE, FALSE, <<>>, <<>>)}
      \cup {Doc(TRUE, TRUE, l, <<>>) : l \in ItemLists(HtmlItems, n)}
      \cup {Doc(TRUE, TRUE, <<>>, l) : l \in ItemLists(HtmlItems, n)}

\* ------------------------------------------------------- pure functions
\* aweme_list_from_html: first known path, second one when the first is empty.
ResolveList(doc) ==
    IF ~(doc.tag /\ doc.json_ok) THEN <<>>
    ELSE IF doc.awemeList # <<>> THEN doc.awemeList
    ELSE doc.itemStruct

\* What the embedded phase found, for the log line it prints.
EmbeddedStatus(doc) ==
    IF ~doc.tag THEN "no_tag"
    ELSE IF ~doc.json_ok THEN "bad_json"
    ELSE IF ResolveList(doc) = <<>> THEN "no_list"
    ELSE "found"

\* 'aweme_id' in item
HasAwemeId(item) == item.aweme_id # Absent

\* item.get("id", 'N/A')
VideoId(item) == IF item.id = Absent THEN NA ELSE item.id

\* video_id not in seen_ids, negated
NeverSeen(vid, seen) == FALSE
AlwaysSeen(vid, seen) == TRUE
Seen(vid, seen) == vid \in seen

\* seen_ids.add(video_id), the statement after the yield
AddNothing(seen, video_id) == seen
Add(seen, video_id) == seen \cup {video_id}

\* The subscripted (not .get) fields of the yielded dict exist, so that
\* building the dict raises no KeyError.  res is the cover resolution read.
Builds(item, res) == item.avatarThumb /\ res \in item.zoomCover

\* The record the embedded-state loop yields.
EmbeddedRecord(item) ==
    [ID |-> item.aweme_id,
     Likes |-> IF item.statistics = Absent THEN NA ELSE item.statistics,
     video_cover |-> "720"]

\* The record the intercepted-payload loop yields.
ApiRecord(item) ==
    [ID |-> VideoId(item),
     Likes |-> IF item.stats = Absent THEN NA ELSE item.stats,
     video_cover |-> "480"]

\* The item a for loop visits at its i-th iteration.
ItemAtReversed(list, i) == list[Len(list) + 1 - i]
ItemAt(list, i) == list[i]

\* The embedded-state loop from its i-th iteration on, up to the point where
\* it suspends or ends: "yield" at item i, "raise" (building the dict for
\* item i raised; the handler at the end of the embedded phase catches it),
\* or "end" (list exhausted).
RECURSIVE EmbScan(_, _, _)
EmbScan(list, i, seen) ==
    IF i > Len(list) THEN [kind |-> "end", i |-> i]
    ELSE LET item == ItemAt(list, i) IN
         IF ~HasAwemeId(item) THEN EmbScan(list, i + 1, seen)
         ELSE IF Seen(item.aweme_id, seen) THEN EmbScan(list, i + 1, seen)
         ELSE IF ~Builds(item, "720") THEN [kind |-> "raise", i |-> i]
         ELSE [kind |-> "yield", i |-> i]

\* 'itemList' in response_data and response_data['itemList']
HasItemList(response_data) ==
    response_data.hasKey /\ response_data.itemList # <<>>

\* The payload the for loop over the accumulator visits after payload j.
BreakLoop(acc, j) == Len(acc) + 1
NextPayload(acc, j) == j + 1

\* The intercepted-payload loops from payload j, item k on, likewise.
\* "raise" leaves through the handler of the outer try.
RECURSIVE IntScan(_, _, _, _)
IntScan(acc, j, k, seen) ==
    IF j > Len(acc) THEN [kind |-> "end", j |-> j, k |-> k]
    ELSE LET p == acc[j] IN
         IF ~HasItemList(p) THEN IntScan(acc, NextPayload(acc, j), 1, seen)
         ELSE IF k > Len(p.itemList) THEN IntScan(acc, NextPayload(acc, j), 1, seen)
         ELSE LET item == ItemAt(p.itemList, k) IN
              IF Seen(VideoId(item), seen) THEN IntScan(acc, j, k + 1, seen)
              ELSE IF ~Builds(item, "480") THEN [kind |-> "raise", j |-> j, k |-> k]
              ELSE [kind |-> "yield", j |-> j, k |-> k]

\* context_options gets 'storage_state' iff a path was given and exists.
LoadsStateWheneverPath(path, exists) == path # None
LoadsState(path, exists) == path # None /\ exists

\* The scroll loop breaks when the height equals the previous one.
NeverStable(current, previous) == FALSE
HeightStable(current, previous) == current = previous

\* A response body as response.json() meets it.  ok: it parses as JSON;
\* data: the parsed value (of no meaning when ok is FALSE).
Body(ok, data) == [ok |-> ok, data |-> data]
RouteBodies ==
    {Body(TRUE, Payload(FALSE, <<>>)), Body(TRUE, Payload(TRUE, <<>>)),
     Body(FALSE, Payload(FALSE, <<>>))}

\* json_data = await response.json() returns a value rather than raising.
AlwaysParses(body) == TRUE
Parses(body) == body.ok

\* The handler the event loop resumes next: callbacks of completed futures
\* run in the order the futures completed.
ReadyIndexLast(queue) == Len(queue)
ReadyIndex(queue) == 1

\* The requests of the page, numbered in the order they are issued.
Requests == 1..MaxRequests
\* A request before it is issued.  matches: its URL contains
\* api/post/item_list/; at: where its handle_route call stands; calls: the
\* methods called on its route object; body: the body of its response.
Unsent ==
    [matches |-> FALSE, at |-> "unsent", calls |-> <<>>,
     body |-> Body(FALSE, Payload(FALSE, <<>>))]

\* while scroll_count < max_scrolls
AlwaysScrollAgain(count) == TRUE
ScrollAgain(count) == count < max_scrolls

\* The calls of scrape_tiktok_profile that are followed side by side.
Runs == {"a", "b"}
\* A call that has not started: its locals do not exist yet.
NotCalled ==
    [at |-> "idle", seen_ids |-> {}, intercepted_api_responses |-> <<>>,
     int_j |-> 0, int_k |-> 0, yielded |-> <<>>]

\* The set the test "video_id not in seen_ids" of call r reads: the local
\* of that call.
SeenIdsOfAll(rs, r) == UNION {rs[q].seen_ids : q \in Runs}
SeenIds(rs, r) == rs[r].seen_ids

\* ----------------------------------------------------------------- state
VARIABLES
    pc,                        \* where the generator is suspended, or how it ended
    storage_state_path,        \* argument: None or a path
    file_exists,               \* os.path.exists(storage_state_path) when the run starts
    context_options,           \* keys of context_options
    intercepted_api_responses, \* the payload accumulator
    seen_ids,                  \* the identity set
    aweme_list_from_html,      \* the embedded item list
    emb_i,                     \* iteration of the embedded loop
    int_j, int_k,              \* iterations of the payload loop and its item loop
    previous_height, current_height, scroll_count,
    browser,                   \* "none", "open" (launched) or "closed" (browser.close() returned)
    context, page,             \* "none" or "open"
    routed,                    \* handle_route is registered on the page
    state_saved,               \* context.storage_state(path=...) has written the file in this run
    nav,                       \* how page.goto ended: "pending", "ok", "timeout", "error"
    embedded,                  \* what the embedded phase found, or "raised"
    payload_phase,             \* the payload loop: "pending", "running", "ended" or "raised"
    yielded,                   \* the records handed to the consumer, with their origin
    height_varied,             \* two height measurements of the run differed
    scrolls,                   \* scroll-to-bottom evaluations performed
    raw_item, raw_source,      \* one raw item (a sequence of length 1) and the loop it is given to
    video,                     \* the record that loop yields for it (a sequence of length 0 or 1)
    requests,                  \* per request of the page: where its handle_route call stands
    ready,                     \* handlers whose response.json() has its body, in the order the loop will resume them
    completed,                 \* requests in the order their bodies arrived
    stored_from,               \* the request behind each entry of the accumulator
    page_items,                \* raw items the profile serves in this run (embedded list and responses together)
    runs                       \* per call of scrape_tiktok_profile followed side by side: its locals

runVars ==
    <<pc, storage_state_path, file_exists, context_options,
      intercepted_api_responses, seen_ids, aweme_list_from_html, emb_i,
      int_j, int_k, previous_height, current_height, scroll_count, browser,
      context, page, routed, state_saved, nav, embedded, payload_phase, yielded, height_varied,
      scrolls>>
normVars == <<raw_item, raw_source, video>>
routeVars == <<requests, ready, completed, stored_from>>
vars == <<runVars, normVars, routeVars, page_items, runs>>

\* Points where the generator is suspended in an await.
SetupAwaits == {"launch", "new_context", "new_page", "route"}
PageAwaits ==
    {"goto", "settle", "content", "refresh_wait", "click", "refresh_load",
     "refresh_settle", "measure", "scroll", "scroll_settle", "save", "close"}
Awaits == SetupAwaits \cup PageAwaits
\* Points where it is suspended in a yield.
Yields == {"emb_yield", "int_yield"}
\* Ways the run ends: the generator returned, raised to the consumer, or was
\* closed / cancelled by the consumer.
Ended == {"done", "raised", "aborted"}

\* Raw items served so far.
RECURSIVE ItemCount(_)
ItemCount(acc) ==
    IF acc = <<>> THEN 0 ELSE Len(Head(acc).itemList) + ItemCount(Tail(acc))
Served == Len(aweme_list_from_html) + ItemCount(intercepted_api_responses)

\* Where control goes after the try statement: the state is saved when a
\* path was given, then the browser is closed.
AfterTryNoSave == "close"
AfterTryRenavigate == "goto"
AfterTry == IF storage_state_path # None THEN "save" ELSE "close"

\* Where control goes when an await before the try statement raises: no
\* handler encloses it, the error leaves the generator.
SetupErrorCaught == AfterTry
SetupError == "raised"

Init ==
    /\ pc = "launch"
    /\ storage_state_path \in {None, "state.json"}
    /\ file_exists \in BOOLEAN
    /\ storage_state_path = None => ~file_exists
    /\ context_options = {}
    /\ intercepted_api_responses = <<>>
    /\ seen_ids = {}
    /\ aweme_list_from_html = <<>>
    /\ emb_i = 0
    /\ int_j = 0
    /\ int_k = 0
    /\ previous_height = -1
    /\ current_height = -1
    /\ scroll_count = 0
    /\ browser = "none"
    /\ context = "none"
    /\ page = "none"
    /\ routed = FALSE
    /\ state_saved = FALSE
    /\ nav = "pending"
    /\ embedded = "pending"
    /\ payload_phase = "pending"
    /\ yielded = <<>>
    /\ height_varied = FALSE
    /\ scrolls = 0
    /\ raw_item = <<>>
    /\ raw_source = None
    /\ video = <<>>
    /\ requests = [r \in Requests |-> Unsent]
    /\ ready = <<>>
    /\ completed = <<>>
    /\ stored_from = <<>>
    /\ page_items = MaxItems
    /\ runs = [r \in Runs |-> NotCalled]

\* Where control goes when processing the embedded data raises: the handlers
\* that close the embedded phase catch the error and the refresh check
\* follows.
EmbeddedErrorFatal == AfterTry
EmbeddedError == "refresh_wait"

\* ------------------------------------------------- phases of the generator
\* The embedded loop runs from iteration i to its next suspension.
EmbPhase(list, i, seen, status) ==
    LET r == EmbScan(list, i, seen) IN
    /\ emb_i' = r.i
    /\ embedded' = IF r.kind = "raise" THEN "raised" ELSE status
    /\ IF r.kind = "yield"
       THEN /\ pc' = "emb_yield"
            /\ yielded' = Append(yielded,
                   [rec |-> EmbeddedRecord(ItemAt(list, r.i)),
                    src |-> "html", j |-> 0, k |-> r.i])
       ELSE /\ pc' = IF r.kind = "raise" THEN EmbeddedError ELSE "refresh_wait"
            /\ UNCHANGED yielded

\* The payload loops run from (j, k) to their next suspension.
IntPhase(j, k, seen) ==
    LET acc == intercepted_api_responses
        r == IntScan(acc, j, k, seen) IN
    /\ int_j' = r.j
    /\ int_k' = r.k
    /\ payload_phase' = CASE r.kind = "yield" -> "running"
                          [] r.kind = "raise" -> "raised"
                          [] OTHER -> "ended"
    /\ IF r.kind = "yield"
       THEN /\ pc' = "int_yield"
            /\ yielded' = Append(yielded,
                   [rec |-> ApiRecord(ItemAt(acc[r.j].itemList, r.k)),
                    src |-> "api", j |-> r.j, k |-> r.k])
       ELSE /\ pc' = AfterTry
            /\ UNCHANGED yielded

\* The refresh check is over, by success or by an error that its own handlers
\* caught.  The scroll loop starts: previous_height = -1, scroll_count = 0,
\* and the first height measurement is awaited.
LeaveTry ==
    /\ pc' = AfterTry
    /\ UNCHANGED <<previous_height, scroll_count>>
StartScroll ==
    /\ pc' = "measure"
    /\ previous_height' = -1
    /\ scroll_count' = 0

extractVars ==
    <<seen_ids, aweme_list_from_html, emb_i, int_j, int_k, yielded, embedded,
      payload_phase>>
scrollVars == <<previous_height, current_height, scroll_count, height_varied, scrolls>>
sessionVars ==
    <<storage_state_path, file_exists, context_options, browser, context, page,
      routed, state_saved>>

\* ------------------------------------------------------------ the actions
\* browser = await p.chromium.launch(...)
Launch ==
    /\ pc = "launch"
    /\ \E r \in {"ok", "error"} :
         IF r = "ok"
         THEN browser' = "open" /\ pc' = "new_context"
         ELSE browser' = browser /\ pc' = SetupError
    /\ UNCHANGED <<storage_state_path, file_exists, context_options, context,
                   page, routed, state_saved,
                   intercepted_api_responses, nav, extractVars, scrollVars,
                   normVars, routeVars, page_items, runs>>

\* context_options is filled in, then context = await browser.new_context(...)
NewContext ==
    /\ pc = "new_context"
    /\ context_options' =
         IF LoadsState(storage_state_path, file_exists)
         THEN {"storage_state"} ELSE {}
    /\ \E r \in {"ok", "error"} :
         IF r = "ok"
         THEN context' = "open" /\ pc' = "new_page"
         ELSE context' = context /\ pc' = SetupError
    /\ UNCHANGED <<storage_state_path, file_exists, browser, page, routed,
                   state_saved,
                   intercepted_api_responses, nav, extractVars, scrollVars,
                   normVars, routeVars, page_items, runs>>

\* page = await context.new_page()
NewPage ==
    /\ pc = "new_page"
    /\ \E r \in {"ok", "error"} :
         IF r = "ok"
         THEN page' = "open" /\ pc' = "route"
         ELSE page' = page /\ pc' = SetupError
    /\ UNCHANGED <<storage_state_path, file_exists, context_options, browser,
                   context, routed, state_saved,
                   intercepted_api_responses, nav, extractVars,
                   scrollVars, normVars, routeVars, page_items, runs>>

\* await page.route(pattern, handle_route)
Route ==
    /\ pc = "route"
    /\ \E r \in {"ok", "error"} :
         IF r = "ok"
         THEN routed' = TRUE /\ pc' = "goto"
         ELSE routed' = routed /\ pc' = SetupError
    /\ UNCHANGED <<storage_state_path, file_exists, context_options, browser,
                   context, page, state_saved,
                   intercepted_api_responses, nav, extractVars,
                   scrollVars, normVars, routeVars, page_items, runs>>

\* Where the run goes after page.goto: on to the wait of line 80, or, when
\* goto raised, to the handlers of lines 218-221 and the code after the try.
AfterGotoIgnoresFailure(r) == "settle"
AfterGoto(r) == IF r = "ok" THEN "settle" ELSE AfterTry

\* await page.goto(url, wait_until='networkidle', timeout=60000); a
\* TimeoutError or any other Exception leaves the try statement.
Goto ==
    /\ pc = "goto"
    /\ \E r \in {"ok", "timeout", "error"} :
         /\ nav' = r
         /\ pc' = AfterGoto(r)
    /\ UNCHANGED <<sessionVars, intercepted_api_responses, extractVars,
                   scrollVars, normVars, routeVars, page_items, runs>>

\* await page.wait_for_timeout(5000)
Settle ==
    /\ pc = "settle"
    /\ \E r \in {"ok", "error"} :
         pc' = IF r = "ok" THEN "content" ELSE AfterTry
    /\ UNCHANGED <<sessionVars, intercepted_api_responses, nav, extractVars,
                   scrollVars, normVars, routeVars, page_items, runs>>

\* page_content = await page.content(), then the embedded phase up to its
\* first yield or its end.
Content ==
    /\ pc = "content"
    /\ \/ /\ pc' = AfterTry
          /\ UNCHANGED <<aweme_list_from_html, embedded, emb_i, yielded>>
       \/ \E doc \in EmbeddedDocs(page_items - Served) :
            /\ aweme_list_from_html' = ResolveList(doc)
            /\ EmbPhase(ResolveList(doc), 1, seen_ids, EmbeddedStatus(doc))
    /\ UNCHANGED <<sessionVars, intercepted_api_responses, nav, seen_ids,
                   int_j, int_k, payload_phase, scrollVars, normVars, routeVars, page_items, runs>>

\* The consumer asks for the next record while the generator is suspended
\* in the embedded loop: seen_ids.add(video_id), then the loop goes on.
EmbResume ==
    /\ pc = "emb_yield"
    /\ LET seen == Add(seen_ids, ItemAt(aweme_list_from_html, emb_i).aweme_id) IN
         /\ seen_ids' = seen
         /\ EmbPhase(aweme_list_from_html, emb_i + 1, seen, embedded)
    /\ UNCHANGED <<sessionVars, intercepted_api_responses, nav,
                   aweme_list_from_html, int_j, int_k, payload_phase, scrollVars,
                   normVars, routeVars, page_items, runs>>

\* await page.wait_for_selector(refresh_button_selector, timeout=3000)
RefreshWait ==
    /\ pc = "refresh_wait"
    /\ \E r \in {"found", "timeout", "error"} :
         IF r = "found"
         THEN pc' = "click" /\ UNCHANGED <<previous_height, scroll_count>>
         ELSE StartScroll
    /\ UNCHANGED <<sessionVars, intercepted_api_responses, nav, extractVars,
                   current_height, height_varied, scrolls, normVars, routeVars, page_items, runs>>

\* await page.click(refresh_button_selector)
Click ==
    /\ pc = "click"
    /\ \E r \in {"ok", "error"} :
         IF r = "ok"
         THEN pc' = "refresh_load" /\ UNCHANGED <<previous_height, scroll_count>>
         ELSE StartScroll
    /\ UNCHANGED <<sessionVars, intercepted_api_responses, nav, extractVars,
                   current_height, height_varied, scrolls, normVars, routeVars, page_items, runs>>

\* await page.wait_for_load_state('networkidle', timeout=60000)
RefreshLoad ==
    /\ pc = "refresh_load"
    /\ \E r \in {"ok", "timeout", "error"} :
         IF r = "ok"
         THEN pc' = "refresh_settle" /\ UNCHANGED <<previous_height, scroll_count>>
         ELSE StartScroll
    /\ UNCHANGED <<sessionVars, intercepted_api_responses, nav, extractVars,
                   current_height, height_varied, scrolls, normVars, routeVars, page_items, runs>>

\* await page.wait_for_timeout(5000); the scroll loop starts either way
RefreshSettle ==
    /\ pc = "refresh_settle"
    /\ StartScroll
    /\ UNCHANGED <<sessionVars, intercepted_api_responses, nav, extractVars,
                   current_height, height_varied, scrolls, normVars, routeVars, page_items, runs>>

\* current_height = await page.evaluate("document.body.scrollHeight"); on an
\* unchanged height the loop breaks and the payload phase runs.
Measure ==
    /\ pc = "measure"
    /\ \/ /\ pc' = AfterTry
          /\ UNCHANGED <<current_height, height_varied, int_j, int_k, payload_phase,
                         yielded>>
       \/ \E h \in Heights :
            /\ height_varied' = (height_varied \/ (current_height # -1 /\ h # current_height))
            /\ current_height' = h
            /\ IF HeightStable(h, previous_height)
               THEN IntPhase(1, 1, seen_ids)
               ELSE pc' = "scroll" /\ UNCHANGED <<int_j, int_k, payload_phase, yielded>>
    /\ UNCHANGED <<sessionVars, intercepted_api_responses, nav, seen_ids,
                   aweme_list_from_html, emb_i, embedded, previous_height,
                   scroll_count, scrolls, normVars, routeVars, page_items, runs>>

\* await page.evaluate("window.scrollTo(0, document.body.scrollHeight)")
Scroll ==
    /\ pc = "scroll"
    /\ \E r \in {"ok", "error"} :
         IF r = "ok"
         THEN pc' = "scroll_settle" /\ scrolls' = scrolls + 1
         ELSE pc' = AfterTry /\ UNCHANGED scrolls
    /\ UNCHANGED <<sessionVars, intercepted_api_responses, nav, extractVars,
                   previous_height, current_height, scroll_count, height_varied, normVars, routeVars, page_items, runs>>

\* await page.wait_for_timeout(2000); previous_height = current_height;
\* scroll_count += 1; after the last round the payload phase runs.
ScrollSettle ==
    /\ pc = "scroll_settle"
    /\ \/ /\ pc' = AfterTry
          /\ UNCHANGED <<previous_height, scroll_count, int_j, int_k, payload_phase,
                         yielded>>
       \/ /\ previous_height' = current_height
          /\ scroll_count' = scroll_count + 1
          /\ IF ScrollAgain(scroll_count + 1)
             THEN pc' = "measure" /\ UNCHANGED <<int_j, int_k, payload_phase, yielded>>
             ELSE IntPhase(1, 1, seen_ids)
    /\ UNCHANGED <<sessionVars, intercepted_api_responses, nav, seen_ids,
                   aweme_list_from_html, emb_i, embedded, current_height, height_varied,
                   scrolls, normVars, routeVars, page_items, runs>>

\* The consumer asks for the next record while the generator is suspended
\* in the payload loop.
IntResume ==
    /\ pc = "int_yield"
    /\ LET item == ItemAt(intercepted_api_responses[int_j].itemList, int_k)
           seen == Add(seen_ids, VideoId(item)) IN
         /\ seen_ids' = seen
         /\ IntPhase(int_j, int_k + 1, seen)
    /\ UNCHANGED <<sessionVars, intercepted_api_responses, nav,
                   aweme_list_from_html, emb_i, embedded, scrollVars, normVars, routeVars, page_items, runs>>

\* await context.storage_state(path=storage_state_path)
Save ==
    /\ pc = "save"
    /\ \E r \in {"ok", "error"} :
         IF r = "ok"
         THEN pc' = "close" /\ state_saved' = TRUE
         ELSE pc' = "raised" /\ UNCHANGED state_saved
    /\ UNCHANGED <<storage_state_path, file_exists, context_options, browser,
                   context, page, routed,
                   intercepted_api_responses, nav, extractVars, scrollVars,
                   normVars, routeVars, page_items, runs>>

\* await browser.close(), which is taken to succeed; the generator returns.
CloseBrowser ==
    /\ pc = "close"
    /\ pc' = "done"
    /\ browser' = "closed"
    /\ UNCHANGED <<storage_state_path, file_exists, context_options, context,
                   page, routed, state_saved,
                   intercepted_api_responses, nav, extractVars, scrollVars,
                   normVars, routeVars, page_items, runs>>

\* handle_route stores the parsed body of one matching response.  It runs on
\* the event loop of the generator, so only while the generator is suspended
\* and the page is open.
Intercept ==
    /\ routed
    /\ pc \in PageAwaits \cup Yields
    /\ Len(intercepted_api_responses) < MaxPayloads
    /\ \E json_data \in Payloads(page_items - Served) :
         intercepted_api_responses' = Append(intercepted_api_responses, json_data)
    /\ UNCHANGED <<pc, sessionVars, nav, extractVars, scrollVars, normVars, routeVars, page_items, runs>>

\* The consumer closes the generator at a yield (GeneratorExit is raised
\* there; no handler of the function catches a BaseException).
AClose ==
    /\ pc \in Yields
    /\ pc' = "aborted"
    /\ UNCHANGED <<sessionVars, intercepted_api_responses, nav, extractVars,
                   scrollVars, normVars, routeVars, page_items, runs>>

\* The task is cancelled while the generator awaits (CancelledError is
\* raised there; no handler of the function catches a BaseException).
Cancel ==
    /\ pc \in Awaits
    /\ pc' = "aborted"
    /\ UNCHANGED <<sessionVars, intercepted_api_responses, nav, extractVars,
                   scrollVars, normVars, routeVars, page_items, runs>>

Next ==
    \/ Launch \/ NewContext \/ NewPage \/ Route \/ Goto \/ Settle \/ Content
    \/ EmbResume \/ RefreshWait \/ Click \/ RefreshLoad \/ RefreshSettle
    \/ Measure \/ Scroll \/ ScrollSettle \/ IntResume \/ Save \/ CloseBrowser
    \/ Intercept \/ AClose \/ Cancel

Spec == Init /\ [][Next]_vars

\* The same run, with a storage state path that has no file yet, on a
\* profile that serves one item more: an embedded list can then hold an item
\* before the one whose id a payload repeats.
InitOneMore ==
    /\ pc = "launch"
    /\ storage_state_path = "state.json"
    /\ file_exists = FALSE
    /\ context_options = {}
    /\ intercepted_api_responses = <<>>
    /\ seen_ids = {}
    /\ aweme_list_from_html = <<>>
    /\ emb_i = 0
    /\ int_j = 0
    /\ int_k = 0
    /\ previous_height = -1
    /\ current_height = -1
    /\ scroll_count = 0
    /\ browser = "none"
    /\ context = "none"
    /\ page = "none"
    /\ routed = FALSE
    /\ state_saved = FALSE
    /\ nav = "pending"
    /\ embedded = "pending"
    /\ payload_phase = "pending"
    /\ yielded = <<>>
    /\ height_varied = FALSE
    /\ scrolls = 0
    /\ raw_item = <<>>
    /\ raw_source = None
    /\ video = <<>>
    /\ requests = [r \in Requests |-> Unsent]
    /\ ready = <<>>
    /\ completed = <<>>
    /\ stored_from = <<>>
    /\ page_items = MaxItems + 1
    /\ runs = [r \in Runs |-> NotCalled]

SpecOneMore == InitOneMore /\ [][Next]_vars

\* ------------------------------------------- normalisation of one raw item
\* The two loops build their records differently; this specification gives
\* one raw item of any shape to one of the two loops.
InitNormalize ==
    /\ pc = "launch"
    /\ storage_state_path = None
    /\ file_exists = FALSE
    /\ context_options = {}
    /\ intercepted_api_responses = <<>>
    /\ seen_ids = {}
    /\ aweme_list_from_html = <<>>
    /\ emb_i = 0
    /\ int_j = 0
    /\ int_k = 0
    /\ previous_height = -1
    /\ current_height = -1
    /\ scroll_count = 0
    /\ browser = "none"
    /\ context = "none"
    /\ page = "none"
    /\ routed = FALSE
    /\ state_saved = FALSE
    /\ nav = "pending"
    /\ embedded = "pending"
    /\ payload_phase = "pending"
    /\ yielded = <<>>
    /\ height_varied = FALSE
    /\ scrolls = 0
    /\ raw_item \in {<<item>> : item \in AllItems}
    /\ raw_source \in {"html", "api"}
    /\ video = <<>>
    /\ requests = [r \in Requests |-> Unsent]
    /\ ready = <<>>
    /\ completed = <<>>
    /\ stored_from = <<>>
    /\ page_items = MaxItems
    /\ runs = [r \in Runs |-> NotCalled]

\* The body of the embedded loop for one item that is not in seen_ids.
NormalizeEmbedded ==
    /\ raw_source = "html"
    /\ video = <<>>
    /\ HasAwemeId(raw_item[1])
    /\ Builds(raw_item[1], "720")
    /\ video' = <<EmbeddedRecord(raw_item[1])>>
    /\ UNCHANGED <<runVars, raw_item, raw_source, routeVars, page_items, runs>>

\* The body of the payload item loop for one item that is not in seen_ids.
NormalizeApi ==
    /\ raw_source = "api"
    /\ video = <<>>
    /\ Builds(raw_item[1], "480")
    /\ video' = <<ApiRecord(raw_item[1])>>
    /\ UNCHANGED <<runVars, raw_item, raw_source, routeVars, page_items, runs>>

NextNormalize == NormalizeEmbedded \/ NormalizeApi

SpecNormalize == InitNormalize /\ [][NextNormalize]_vars

\* ------------------------------------------ handle_route, call by call
\* The page is open with handle_route registered and the generator is
\* suspended; the page issues requests and each matching one gets its own
\* handle_route call, which advances from await to await.
InitRoute ==
    /\ pc = "goto"
    /\ storage_state_path = None
    /\ file_exists = FALSE
    /\ context_options = {}
    /\ intercepted_api_responses = <<>>
    /\ seen_ids = {}
    /\ aweme_list_from_html = <<>>
    /\ emb_i = 0
    /\ int_j = 0
    /\ int_k = 0
    /\ previous_height = -1
    /\ current_height = -1
    /\ scroll_count = 0
    /\ browser = "open"
    /\ context = "open"
    /\ page = "open"
    /\ routed = TRUE
    /\ state_saved = FALSE
    /\ nav = "pending"
    /\ embedded = "pending"
    /\ payload_phase = "pending"
    /\ yielded = <<>>
    /\ height_varied = FALSE
    /\ scrolls = 0
    /\ raw_item = <<>>
    /\ raw_source = None
    /\ video = <<>>
    /\ requests = [r \in Requests |-> Unsent]
    /\ ready = <<>>
    /\ completed = <<>>
    /\ stored_from = <<>>
    /\ page_items = MaxItems
    /\ runs = [r \in Runs |-> NotCalled]

idleVars == <<pc, sessionVars, nav, extractVars, scrollVars, normVars>>

\* The page issues its next request.  One whose URL matches the pattern of
\* page.route is handed to handle_route, which runs up to
\* await route.continue_(); any other request is not routed at all (the else
\* branch of handle_route tests the same pattern and is never taken).
IssueRequest ==
    /\ routed
    /\ \E r \in Requests :
         /\ requests[r].at = "unsent"
         /\ \A q \in Requests : q < r => requests[q].at # "unsent"
         /\ \E m \in BOOLEAN :
              requests' = [requests EXCEPT ![r] =
                  IF m THEN [@ EXCEPT !.matches = TRUE, !.at = "continue_",
                                      !.calls = Append(@, "continue_")]
                  ELSE [@ EXCEPT !.at = "passed"]]
    /\ UNCHANGED <<idleVars, intercepted_api_responses, ready, completed, stored_from, page_items, runs>>

\* await route.continue_() returns, or raises and ends the handler; then
\* response = await route.request.response() is awaited.
Continued ==
    /\ \E r \in Requests :
         /\ requests[r].at = "continue_"
         /\ \E res \in {"ok", "error"} :
              requests' = [requests EXCEPT ![r].at =
                  IF res = "ok" THEN "response" ELSE "failed"]
    /\ UNCHANGED <<idleVars, intercepted_api_responses, ready, completed, stored_from, page_items, runs>>

\* route.request.response() returns the response or None; with a response,
\* response.json() is awaited.
Response ==
    /\ \E r \in Requests :
         /\ requests[r].at = "response"
         /\ \E response \in BOOLEAN :
              requests' = [requests EXCEPT ![r].at =
                  IF response THEN "json" ELSE "no_response"]
    /\ UNCHANGED <<idleVars, intercepted_api_responses, ready, completed, stored_from, page_items, runs>>

\* The body of a response arrives: the future response.json() waits on
\* completes and the handler is scheduled.
BodyArrives ==
    /\ \E r \in Requests :
         /\ requests[r].at = "json"
         /\ \E body \in RouteBodies :
              requests' = [requests EXCEPT ![r] = [@ EXCEPT !.at = "woken", !.body = body]]
         /\ ready' = Append(ready, r)
         /\ completed' = Append(completed, r)
    /\ UNCHANGED <<idleVars, intercepted_api_responses, stored_from, page_items, runs>>

\* The event loop resumes a scheduled handler: the body is parsed and
\* appended to the accumulator, or the parse error is caught and printed.
HandlerResumes ==
    /\ ready # <<>>
    /\ LET n == ReadyIndex(ready)
           r == ready[n] IN
         /\ ready' = SubSeq(ready, 1, n - 1) \o SubSeq(ready, n + 1, Len(ready))
         /\ IF Parses(requests[r].body)
            THEN /\ intercepted_api_responses' =
                      Append(intercepted_api_responses, requests[r].body.data)
                 /\ stored_from' = Append(stored_from, r)
                 /\ requests' = [requests EXCEPT ![r].at = "stored"]
            ELSE /\ requests' = [requests EXCEPT ![r].at = "unparsable"]
                 /\ UNCHANGED <<intercepted_api_responses, stored_from>>
    /\ UNCHANGED <<idleVars, completed, page_items, runs>>

NextRoute ==
    IssueRequest \/ Continued \/ Response \/ BodyArrives \/ HandlerResumes

SpecRoute == InitRoute /\ [][NextRoute]_vars

\* ------------------------------------------------- two calls side by side
\* Each call of scrape_tiktok_profile creates its own seen_ids and
\* intercepted_api_responses; its interceptor appends to its own accumulator
\* and its payload loops read its own locals.  The two calls are followed
\* from the call through interception to the payload loops, in any
\* interleaving (one after the other included).
InitRuns ==
    /\ pc = "launch"
    /\ storage_state_path = None
    /\ file_exists = FALSE
    /\ context_options = {}
    /\ intercepted_api_responses = <<>>
    /\ seen_ids = {}
    /\ aweme_list_from_html = <<>>
    /\ emb_i = 0
    /\ int_j = 0
    /\ int_k = 0
    /\ previous_height = -1
    /\ current_height = -1
    /\ scroll_count = 0
    /\ browser = "none"
    /\ context = "none"
    /\ page = "none"
    /\ routed = FALSE
    /\ state_saved = FALSE
    /\ nav = "pending"
    /\ embedded = "pending"
    /\ payload_phase = "pending"
    /\ yielded = <<>>
    /\ height_varied = FALSE
    /\ scrolls = 0
    /\ raw_item = <<>>
    /\ raw_source = None
    /\ video = <<>>
    /\ requests = [r \in Requests |-> Unsent]
    /\ ready = <<>>
    /\ completed = <<>>
    /\ stored_from = <<>>
    /\ page_items = MaxItems
    /\ runs = [r \in Runs |-> NotCalled]

\* The payload loops of call r run from (j, k) to their next suspension,
\* over the locals of that call as rs holds them.
RunPhase(rs, r, j, k) ==
    LET acc == rs[r].intercepted_api_responses
        res == IntScan(acc, j, k, SeenIds(rs, r)) IN
    [rs EXCEPT ![r] =
        [@ EXCEPT !.int_j = res.j,
                  !.int_k = res.k,
                  !.at = CASE res.kind = "yield" -> "int_yield"
                           [] res.kind = "raise" -> "raised"
                           [] OTHER -> "ended",
                  !.yielded = IF res.kind = "yield"
                              THEN Append(@, ApiRecord(ItemAt(acc[res.j].itemList, res.k)))
                              ELSE @]]

\* scrape_tiktok_profile(...) is called and started: the two locals are
\* created empty.
CallRun ==
    /\ \E r \in Runs :
         /\ runs[r].at = "idle"
         /\ runs' = [runs EXCEPT ![r] =
                [@ EXCEPT !.at = "collecting", !.seen_ids = {},
                          !.intercepted_api_responses = <<>>]]
    /\ UNCHANGED <<runVars, normVars, routeVars, page_items>>

\* The handle_route of call r stores a parsed body in the accumulator of
\* that call.
InterceptRun ==
    /\ \E r \in Runs :
         /\ runs[r].at \in {"collecting", "int_yield"}
         /\ Len(runs[r].intercepted_api_responses) < MaxPayloads
         /\ \E json_data \in Payloads(1) :
              runs' = [runs EXCEPT ![r].intercepted_api_responses = Append(@, json_data)]
    /\ UNCHANGED <<runVars, normVars, routeVars, page_items>>

\* Call r reaches its payload loops.
StartLoopRun ==
    /\ \E r \in Runs :
         /\ runs[r].at = "collecting"
         /\ runs' = RunPhase(runs, r, 1, 1)
    /\ UNCHANGED <<runVars, normVars, routeVars, page_items>>

\* The consumer of call r asks for the next record: seen_ids.add(video_id)
\* on the set of that call, then its loop goes on.
ResumeRun ==
    /\ \E r \in Runs :
         /\ runs[r].at = "int_yield"
         /\ LET me == runs[r]
                item == ItemAt(me.intercepted_api_responses[me.int_j].itemList, me.int_k)
                rs == [runs EXCEPT ![r].seen_ids = Add(@, VideoId(item))] IN
              runs' = RunPhase(rs, r, me.int_j, me.int_k + 1)
    /\ UNCHANGED <<runVars, normVars, routeVars, page_items>>

NextRuns == CallRun \/ InterceptRun \/ StartLoopRun \/ ResumeRun

SpecRuns == InitRuns /\ [][NextRuns]_vars

\* ================================================================ claims
YieldedIds == {yielded[n].rec.ID : n \in DOMAIN yielded}
EmbeddedItems == {aweme_list_from_html[i] : i \in DOMAIN aweme_list_from_html}
\* The items of the payloads at positions js of the accumulator.
PayloadItems(js) ==
    UNION {{intercepted_api_responses[j].itemList[k] :
               k \in DOMAIN intercepted_api_responses[j].itemList} :
           j \in js \cap DOMAIN intercepted_api_responses}
\* Items for which building the record raises nothing.
ValidEmbedded(item) == item.aweme_id # Absent /\ item.avatarThumb /\ "720" \in item.zoomCover
ValidApi(item) == item.avatarThumb /\ "480" \in item.zoomCover
\* The payloads the payload loop has been through.
Visited ==
    IF payload_phase = "raised" THEN 1..int_j
    ELSE IF payload_phase = "ended" THEN 1..(int_j - 1)
    ELSE {}

\* C1: in one run no two yielded records have the same ID, whatever the
\* embedded list and the intercepted payloads contain.
C1_NoDuplicateIds ==
    \A m, n \in DOMAIN yielded :
        m # n => yielded[m].rec.ID # yielded[n].rec.ID

\* C1 witness: a finished run in which the same id was in the embedded list
\* and in an intercepted payload, both complete, and was yielded.
C1_Witness ==
    /\ pc = "done"
    /\ payload_phase = "ended"
    /\ \E a \in EmbeddedItems, b \in PayloadItems(Visited) :
         /\ ValidEmbedded(a) /\ ValidApi(b)
         /\ a.aweme_id = b.id
         /\ a.aweme_id \in YieldedIds

\* C2: every record from the embedded list is yielded before every record
\* from an intercepted payload; embedded records come in list order, payload
\* records in accumulator order and, within a payload, in itemList order.
C2_SourceOrder ==
    /\ \A n \in DOMAIN yielded :
         LET y == yielded[n] IN
         IF y.src = "html"
         THEN /\ y.j = 0
              /\ y.rec = EmbeddedRecord(aweme_list_from_html[y.k])
         ELSE /\ y.j >= 1
              /\ y.rec = ApiRecord(intercepted_api_responses[y.j].itemList[y.k])
    /\ \A m, n \in DOMAIN yielded :
         m < n => \/ yielded[m].j < yielded[n].j
                  \/ yielded[m].j = yielded[n].j /\ yielded[m].k < yielded[n].k

\* C2 witness: a finished run that yielded an embedded record and then a
\* payload record.
C2_Witness ==
    /\ pc = "done"
    /\ Len(yielded) = 2
    /\ yielded[1].src = "html"
    /\ yielded[2].src = "api"

\* C3: an item that lacks a required field is skipped alone: every other
\* valid item of the same source is still yielded (stated at the end of the
\* embedded phase for the embedded list, and once the payload loop is over
\* for the payloads it went through).
C3_FailSoft ==
    /\ pc = "refresh_wait" =>
         \A item \in EmbeddedItems :
             ValidEmbedded(item) => item.aweme_id \in YieldedIds
    /\ payload_phase \in {"ended", "raised"} =>
         \A item \in PayloadItems(Visited) :
             ValidApi(item) => VideoId(item) \in YieldedIds

\* C4: on every exit path of a run that got as far as navigating (normal
\* completion, navigation timeout, an error in a phase, an error while the
\* state is persisted) the browser is closed, and the state is written
\* whenever a path was given (on the last path: unless writing it is what
\* failed).
C4_ReleaseOnEveryExit ==
    (pc \in {"done", "raised"} /\ nav # "pending") =>
        /\ browser = "closed"
        /\ (pc = "done" /\ storage_state_path # None) => state_saved

\* C5: a run aborted while suspended (generator closed at a yield, task
\* cancelled at an await) after the page was loaded still persists the state
\* and closes the browser.
C5_ReleaseOnAbort ==
    (pc = "aborted" /\ nav = "ok") =>
        /\ browser = "closed"
        /\ storage_state_path # None => state_saved

\* C6: when the initial navigation times out, the run goes straight to
\* persisting the state (if a path was given) and closing the browser, and
\* the generator returns; it raises to the consumer only if persisting the
\* state itself raises, and nothing is yielded.
C6_NavigationTimeout ==
    nav = "timeout" =>
        /\ pc \in {"save", "close", "done", "raised", "aborted"}
        /\ pc \in {"close", "done"} => (storage_state_path # None => state_saved)
        /\ pc = "done" => browser = "closed"
        /\ pc = "raised" => (storage_state_path # None /\ ~state_saved)
        /\ yielded = <<>>

\* C6 witness: a run whose navigation timed out has returned, with the
\* state saved to the given path and the browser closed.
C6_Witness ==
    /\ nav = "timeout"
    /\ pc = "done"
    /\ storage_state_path # None
    /\ state_saved
    /\ browser = "closed"

\* C7: the persisted state is loaded into the context iff a path was given
\* and a file exists at it, and this is settled before navigation starts;
\* whenever a path was given the state is written by the time the run
\* returns, whatever the extraction found.
C7_SessionPersistence ==
    /\ (pc = "goto" \/ nav # "pending") =>
         (("storage_state" \in context_options)
             <=> (storage_state_path # None /\ file_exists))
    /\ (pc = "done" /\ storage_state_path # None) => state_saved

\* C7 witness: a path with no file behind it: the run returned without
\* having loaded a state and has written one.
C7_Witness ==
    /\ pc = "done"
    /\ storage_state_path # None
    /\ ~file_exists
    /\ context_options = {}
    /\ state_saved

\* C8: if every height measurement gives the same value, the scroll loop
\* performs at most one scroll-to-bottom.
C8_StableHeightOneScroll ==
    ~height_varied => scrolls <= 1

\* C8 witness: the loop was left after two equal measurements and one scroll.
C8_Witness ==
    /\ payload_phase = "ended"
    /\ ~height_varied
    /\ scrolls = 1
    /\ scroll_count = 1
    /\ current_height = previous_height

\* Every item of the embedded list and of the payloads at js is well formed.
AllWellFormed(js) ==
    /\ \A item \in EmbeddedItems : ValidEmbedded(item)
    /\ \A item \in PayloadItems(js) : item.id # Absent /\ ValidApi(item)
\* The ids the embedded list and the payloads at js hold.
ObservedIds(js) ==
    {item.aweme_id : item \in EmbeddedItems} \cup {item.id : item \in PayloadItems(js)}

\* C9 as stated: with well-formed items and no failing phase, the yielded
\* ids are the ids of the embedded list and of all payloads accumulated
\* during the run, each once.
C9_Original ==
    (pc = "done" /\ payload_phase = "ended"
        /\ AllWellFormed(DOMAIN intercepted_api_responses)) =>
        /\ YieldedIds = ObservedIds(DOMAIN intercepted_api_responses)
        /\ Cardinality(YieldedIds) = Len(yielded)

\* C9 amended: with well-formed items and no failing phase, the yielded ids
\* are the ids of the embedded list and of the payloads that were in the
\* accumulator before the payload loop ended, each once.
C9_YieldedIsUnionOfVisited ==
    (payload_phase = "ended" /\ AllWellFormed(Visited)) =>
        /\ YieldedIds = ObservedIds(Visited)
        /\ Cardinality(YieldedIds) = Len(yielded)

\* C9 witness: an embedded item and a payload repeating it, one record.
C9_Witness ==
    /\ pc = "done"
    /\ payload_phase = "ended"
    /\ AllWellFormed(Visited)
    /\ Len(aweme_list_from_html) = 1
    /\ Cardinality(PayloadItems(Visited)) = 1
    /\ \E b \in PayloadItems(Visited) : b.id = aweme_list_from_html[1].aweme_id
    /\ Len(yielded) = 1

\* C10: the like count is taken from whichever statistics shape the raw
\* item carries, whichever loop built the record.
C10_ShapeByPresence ==
    video # <<>> =>
        LET item == raw_item[1] IN
        /\ (item.stats # Absent /\ item.statistics = Absent)
              => video[1].Likes = item.stats
        /\ (item.statistics # Absent /\ item.stats = Absent)
              => video[1].Likes = item.statistics

\* C11: when the browser cannot be launched, or the context or the page
\* cannot be opened, the generator does not go on without them: the error
\* has left it (the run raised to the consumer), navigation never started
\* and nothing was yielded.  (A run cancelled during the set-up is the
\* other way of being past it without a page.)
C11_SetupFailureRaises ==
    (page = "none" /\ pc \notin {"launch", "new_context", "new_page", "aborted"}) =>
        /\ pc = "raised"
        /\ nav = "pending"
        /\ embedded = "pending" /\ payload_phase = "pending"
        /\ yielded = <<>>

\* C11 witness: the browser was launched, opening the context or the page
\* failed, and the run raised without a record.
C11_Witness ==
    /\ pc = "raised"
    /\ browser = "open"
    /\ page = "none"
    /\ yielded = <<>>

\* The requests whose body is in the accumulator.
StoredRequests == {stored_from[n] : n \in DOMAIN stored_from}
\* The position of request r in the order of arrival of the bodies.
Arrival(r) == CHOOSE n \in DOMAIN completed : completed[n] = r

\* C12: whatever the interleaving of the handle_route calls, each routed
\* request has had exactly one call on its route, continue_ (no abort, no
\* fulfil, no override), and the accumulator holds, once each, exactly the
\* parsed bodies of the matching requests whose response arrived and parsed;
\* a request without a response or with an unparsable body adds nothing.
C12_InterceptorAccumulates ==
    /\ \A r \in Requests :
         requests[r].calls = IF requests[r].matches THEN <<"continue_">> ELSE <<>>
    /\ Len(stored_from) = Len(intercepted_api_responses)
    /\ \A n \in DOMAIN stored_from :
         intercepted_api_responses[n] = requests[stored_from[n]].body.data
    /\ Cardinality(StoredRequests) = Len(stored_from)
    /\ StoredRequests =
         {r \in Requests : /\ requests[r].matches
                           /\ requests[r].at \in {"stored", "unparsable"}
                           /\ requests[r].body.ok}

\* C12 witness: the first request got an unparsable body, the second no
\* response, and the body of the third, issued after both, was accumulated.
C12_Witness ==
    /\ requests[1].at = "unparsable"
    /\ requests[2].at = "no_response"
    /\ requests[3].at = "stored"
    /\ intercepted_api_responses = <<requests[3].body.data>>

\* C13: the accumulator is in the order in which the bodies arrived, not in
\* the order in which the requests were issued.
C13_CompletionOrder ==
    \A m, n \in DOMAIN stored_from :
        m < n => Arrival(stored_from[m]) < Arrival(stored_from[n])

\* C13 witness: three matching requests were in flight together; the body
\* of the third arrived first, then that of the first, and the accumulator
\* holds them in that order while the second is still awaited.
C13_Witness ==
    /\ stored_from = <<3, 1>>
    /\ completed = <<3, 1>>
    /\ requests[2].at = "json"
    /\ Len(intercepted_api_responses) = 2

\* The phase a point of the generator belongs to: set-up, registration of
\* the interceptor, navigation, embedded extraction, refresh check, scroll
\* loop, payload extraction, persistence, close, returned; 10 for a run that
\* raised or was aborted.
Phase(p) ==
    CASE p \in {"launch", "new_context", "new_page"} -> 0
      [] p = "route" -> 1
      [] p \in {"goto", "settle"} -> 2
      [] p \in {"content", "emb_yield"} -> 3
      [] p \in {"refresh_wait", "click", "refresh_load", "refresh_settle"} -> 4
      [] p \in {"measure", "scroll", "scroll_settle"} -> 5
      [] p = "int_yield" -> 6
      [] p = "save" -> 7
      [] p = "close" -> 8
      [] p = "done" -> 9
      [] OTHER -> 10

\* C14: the generator never goes back to an earlier phase; navigation starts
\* with the interceptor registered; the extraction and interaction phases
\* are entered only after a successful navigation; the payload loop has not
\* started before the scroll loop is over; the state is written and the
\* browser closed only after all of them.
C14_PhaseOrder ==
    [][/\ Phase(pc') >= Phase(pc)
       /\ pc' = "goto" => routed'
       /\ Phase(pc') \in 3..6 => nav' = "ok"
       /\ embedded' # "pending" => Phase(pc') >= 3
       /\ (scrolls' > 0 \/ current_height' # -1) => Phase(pc') >= 5
       /\ payload_phase' # "pending" => Phase(pc') >= 6
       /\ (state_saved' \/ browser' = "closed") => Phase(pc') >= 8]_vars

\* C14 witness: a run that went through every phase and returned.
C14_Witness ==
    /\ pc = "done"
    /\ nav = "ok"
    /\ embedded = "found"
    /\ scrolls > 0
    /\ payload_phase = "ended"
    /\ \E m, n \in DOMAIN yielded : yielded[m].src = "html" /\ yielded[n].src = "api"
    /\ state_saved
    /\ browser = "closed"

\* The ways the embedded source fails: no rehydration script element, content
\* that is not JSON, no item list under either path, an item that raises.
EmbeddedFailures == {"no_tag", "bad_json", "no_list", "raised"}
\* The payload loop ended normally and every item of the payloads it went
\* through has its id among the yielded ones.
PayloadsExtracted ==
    payload_phase = "ended" =>
        \A item \in PayloadItems(Visited) : VideoId(item) \in YieldedIds

\* C15: when the embedded source fails in one of these ways the generator
\* goes on to the refresh check, nothing reaches the consumer, and a payload
\* loop that ends after such a failure has still yielded the items of the
\* payloads it went through.
C15_EmbeddedFailureNotFatal ==
    [][/\ (pc \in {"content", "emb_yield"} /\ embedded' \in EmbeddedFailures)
            => (pc' = "refresh_wait" /\ yielded' = yielded)
       /\ embedded' \in EmbeddedFailures => PayloadsExtracted']_vars

\* C15 witness: an embedded item raised, the scroll loop ran, a record of an
\* intercepted payload was yielded and the run returned.
C15_Witness ==
    /\ embedded = "raised"
    /\ scrolls > 0
    /\ payload_phase = "ended"
    /\ \E n \in DOMAIN yielded : yielded[n].src = "api"
    /\ pc = "done"

\* C16: whatever fails in the interaction phase (refresh check or scroll
\* loop), the payload loop still runs: once the embedded phase is over and
\* the try statement has been left, the payload loop has been started.
C16_InteractionFailureKeepsPayloads ==
    (embedded # "pending" /\ pc \in {"save", "close", "done"}) =>
        payload_phase # "pending"

\* C17: the refresh wait is left only to the click (the control appeared),
\* to the scroll loop (it did not appear, or the wait failed) or by
\* cancellation, never by an error to the consumer or out of the try; the
\* click is awaited only right after the wait found the control, and the
\* wait is entered only from the embedded phase, so the control is clicked
\* at most once and then the scroll loop follows.
C17_RefreshControl ==
    [][/\ pc = "refresh_wait" =>
            pc' \in {"refresh_wait", "click", "measure", "aborted"}
       /\ (pc' = "click" /\ pc # "click") => pc = "refresh_wait"
       /\ (pc' = "refresh_wait" /\ pc # "refresh_wait") => pc \in {"content", "emb_yield"}
       /\ pc = "click" => pc' \in {"click", "refresh_load", "measure", "aborted"}
       /\ pc \in {"refresh_load", "refresh_settle"} =>
            pc' \in {pc, "refresh_settle", "measure", "aborted"}
       /\ (pc' = "measure" /\ Phase(pc) < 5) => Phase(pc) = 4]_vars

\* C17 witness: the control appeared, it has been clicked, the page has
\* reloaded and the scroll loop is about to start.
C17_Witness ==
    /\ pc = "refresh_settle"
    /\ scrolls = 0
    /\ current_height = -1

\* C18: whatever heights are measured, the scroll loop performs at most
\* max_scrolls scroll-to-bottom actions and then is over.
C18_ScrollBound ==
    /\ scrolls <= max_scrolls
    /\ scroll_count <= max_scrolls
    /\ scroll_count = max_scrolls => pc \notin {"measure", "scroll", "scroll_settle"}

\* C18 witness: the height changed at every measurement, three scrolls were
\* performed and the loop was left for the payload loop.
C18_Witness ==
    /\ height_varied
    /\ scrolls = max_scrolls
    /\ scroll_count = max_scrolls
    /\ payload_phase = "ended"

\* C19: a further scroll is performed only when the height measured after
\* the previous scroll is greater than the height measured before it.
C19_StopsWhenNotGreater ==
    (pc = "scroll" /\ previous_height # -1) => current_height > previous_height

C21_SourceAssignedIds ==
    \A n \in DOMAIN yielded :
        LET y == yielded[n] IN
        /\ y.rec.ID # NA
        /\ y.src = "html" => HasAwemeId(aweme_list_from_html[y.k])
        /\ y.src = "api" => intercepted_api_responses[y.j].itemList[y.k].id # Absent

\* C22: no record built from an intercepted item is yielded for an id that
\* the embedded list holds in a well-formed item: the record for such an id
\* is the embedded one.
C22_EmbeddedCanonical ==
    \A n \in DOMAIN yielded :
        yielded[n].src = "api" =>
            ~\E item \in EmbeddedItems :
                ValidEmbedded(item) /\ item.aweme_id = yielded[n].rec.ID

\* The ids of the records call r has yielded.
RunYieldedIds(r) == {runs[r].yielded[n].ID : n \in DOMAIN runs[r].yielded}
\* The ids of the items in the accumulator of call r.
RunObservedIds(r) ==
    LET acc == runs[r].intercepted_api_responses IN
    UNION {{VideoId(acc[j].itemList[k]) : k \in DOMAIN acc[j].itemList} : j \in DOMAIN acc}

\* C23: what a call yields depends on its own locals only: its seen_ids
\* holds ids it yielded itself, its records come from its own accumulator,
\* each id once, and when its payload loop ends it has yielded every id of
\* that accumulator, whatever the other call has seen or yielded.
C23_RunsIndependent ==
    \A r \in Runs :
        /\ runs[r].seen_ids \subseteq RunYieldedIds(r)
        /\ RunYieldedIds(r) \subseteq RunObservedIds(r)
        /\ Cardinality(RunYieldedIds(r)) = Len(runs[r].yielded)
        /\ (runs[r].at = "ended"
              /\ runs[r].int_j = Len(runs[r].intercepted_api_responses) + 1)
             => RunYieldedIds(r) = RunObservedIds(r)

\* C23 witness: both calls have ended and each has yielded a record for the
\* id they both observed.
C23_Witness ==
    /\ \A r \in Runs : runs[r].at = "ended" /\ "v1" \in RunYieldedIds(r)

\* The ids yielded before the record the consumer holds.
YieldedBefore == {yielded[n].rec.ID : n \in 1..(Len(yielded) - 1)}

\* C24: while the generator is suspended at a yield, seen_ids holds the ids
\* yielded before the record just handed over; once it has been resumed
\* from a yield, and until the next yield, seen_ids holds the ids of all
\* records yielded so far.  (A generator closed at a yield is not resumed:
\* its seen_ids stays as it was at that yield.)
C24_SeenIdsTiming ==
    /\ pc \in Yields => (yielded # <<>> /\ seen_ids = YieldedBefore)
    /\ pc \notin Yields \cup {"aborted"} => seen_ids = YieldedIds
    /\ pc = "aborted" => seen_ids \in {YieldedIds, YieldedBefore}

\* C24 witness: the generator is suspended at its second yield, with only
\* the id of the first record in seen_ids.
C24_Witness ==
    /\ pc = "int_yield"
    /\ Len(yielded) = 2
    /\ yielded[1].rec.ID # yielded[2].rec.ID
    /\ seen_ids = {yielded[1].rec.ID}

\* C25: the interceptor can append while the payload loop is suspended at a
\* yield; the loop visits the payloads in accumulator order, none twice;
\* when it ends it has been through every payload appended until then; and
\* from then on nothing is yielded and the loop position no longer moves,
\* whatever is appended.
C25_LateAppend ==
    [][/\ \A m, n \in DOMAIN yielded' :
            (m < n /\ yielded'[m].src = "api") =>
                \/ yielded'[m].j < yielded'[n].j
                \/ yielded'[m].j = yielded'[n].j /\ yielded'[m].k < yielded'[n].k
       /\ (payload_phase' = "ended" /\ payload_phase # "ended") =>
            /\ int_j' = Len(intercepted_api_responses') + 1
            /\ PayloadsExtracted'
       /\ payload_phase = "ended" =>
            /\ payload_phase' = "ended"
            /\ UNCHANGED <<int_j, int_k, yielded, seen_ids>>]_vars

\* C25 witness: a payload was appended after the payload loop had ended;
\* its well-formed item, with an id not yet seen, has not been yielded and
\* the run has returned.
C25_Witness ==
    /\ pc = "done"
    /\ payload_phase = "ended"
    /\ int_j = Len(intercepted_api_responses)
    /\ \E item \in PayloadItems({int_j}) :
         /\ item.id # Absent /\ ValidApi(item)
         /\ item.id \notin YieldedIds

\* C26: when the initial navigation times out no extraction phase runs:
\* nothing is yielded, seen_ids stays empty, the page content is never read,
\* the refresh button is never looked for or clicked, nothing is scrolled and
\* the payload loop never starts, whatever the interceptor has accumulated.
C26_TimeoutRunsNoPhase ==
    nav = "timeout" =>
        /\ yielded = <<>>
        /\ seen_ids = {}
        /\ embedded = "pending"
        /\ aweme_list_from_html = <<>>
        /\ payload_phase = "pending"
        /\ int_j = 0 /\ int_k = 0
        /\ scrolls = 0 /\ scroll_count = 0
        /\ current_height = -1
        /\ pc \notin (PageAwaits \ {"save", "close"}) \cup Yields

\* C26 witness: the navigation timed out after the interceptor had stored
\* a payload with a well-formed item, and the run has returned.
C26_Witness ==
    /\ nav = "timeout"
    /\ pc = "done"
    /\ intercepted_api_responses # <<>>
    /\ \E item \in PayloadItems({1}) : item.id # Absent /\ ValidApi(item)

====
